---- MODULE Spec2Model ----
(***************************************************************************)
(* bitcoin_rest: a Context holding an endpoint, and the endpoint calls of  *)
(* src/src/lib.rs (call_json / call_bin / call_hex and the typed calls     *)
(* built on them).  Each call is an async fn: it builds a URL, issues one  *)
(* GET, collects the body, then decodes it.  Several calls may be in       *)
(* flight on one Context at once; every call owns its locals.              *)
(*                                                                         *)
(* Strings are sequences of tokens, byte payloads are sequences of         *)
(* 0..255, text payloads are sequences of one-character strings, JSON      *)
(* payloads are parsed documents (records keyed by the JSON field names).  *)
(***************************************************************************)
EXTENDS Integers, Sequences, FiniteSets, TLC

\* ------------------------------------------------------------- constants
BLOCK_HEADER_SIZE == 80
BLOCK_HASH_SIZE == 32

\* ---------------------------------------------------------------- bounds
MaxCount == 2
MaxTxids == 2
MaxHex == 2

Calls == {1, 2}
RecordIds == {1, 2}
Txids == <<"0e3e", "1006">>
Heights == {0, 1}
DEFAULT_ENDPOINT == <<"http://localhost:8332/rest/">>
GenesisHash == "0000"

VARIABLES
    endpoint,   \* Context.endpoint
    rejects,    \* the header records the consensus codec refuses
    pc,         \* per call: idle, send, body, decode, done, panicked
    op,         \* per call: the method called
    args,       \* per call: its arguments
    url,        \* per call: the URL of the GET
    net,        \* per call: the node's response in flight
    recvd,      \* per call: body units received so far
    result,     \* per call: the collected payload (`result` in the source)
    offset,     \* per call: headers' loop offset
    ret,        \* per call: headers' accumulated Vec
    out,        \* per call: the value the call returned
    nreq,       \* per call: GET requests issued
    ndec,       \* per call: decode attempts
    conn        \* per call: the connection: none, open, closed, failed

vars == <<endpoint, rejects, pc, op, args, url, net, recvd, result, offset, ret,
          out, nreq, ndec, conn>>

\* --------------------------------------------------------------- helpers
RECURSIVE SeqsUpTo(_, _)
SeqsUpTo(S, n) ==
    IF n = 0 THEN {<<>>}
    ELSE LET shorter == SeqsUpTo(S, n - 1)
         IN  shorter \cup {Append(s, x) : s \in shorter, x \in S}

RECURSIVE Concat(_)
Concat(ss) == IF ss = <<>> THEN <<>> ELSE Head(ss) \o Concat(Tail(ss))

\* The 80 bytes of header record `id`, and filler bytes.
Record(id) == [i \in 1..BLOCK_HEADER_SIZE |-> (id * 16 + i) % 256]
Filler(n) == [i \in 1..n |-> (200 + i) % 256]
Body(recs, tail) == Concat([i \in 1..Len(recs) |-> Record(recs[i])]) \o Filler(tail)

Ok(v) == [tag |-> "Ok", val |-> v]
Err(variant, kind, detail) ==
    [tag |-> "Err", variant |-> variant, kind |-> kind, detail |-> detail]
NoOut == [tag |-> "None"]

\* impl From<reqwest::Error> for Error / From<encode::Error> for Error
FromReqwest(kind) == Err("Reqwest", kind, 0)
FromEncode(kind, detail) == Err("BitcoinEncodeError", kind, detail)

\* ------------------------------------------------- the consensus codec
\* BlockHeader::consensus_decode over a byte slice: reads the six fields
\* (80 bytes) from the front of the slice and leaves the rest unread.
HeaderFields(w) ==
    [version        |-> SubSeq(w, 1, 4),
     prev_blockhash |-> SubSeq(w, 5, 36),
     merkle_root    |-> SubSeq(w, 37, 68),
     time           |-> SubSeq(w, 69, 72),
     bits           |-> SubSeq(w, 73, 76),
     nonce          |-> SubSeq(w, 77, 80)]

DecodeBlockHeader(bytes) ==
    IF Len(bytes) < BLOCK_HEADER_SIZE THEN FromEncode("Io", 0)
    ELSE LET w == SubSeq(bytes, 1, BLOCK_HEADER_SIZE)
         IN  IF \E id \in rejects : w = Record(id)
             THEN FromEncode("ParseFailed", CHOOSE id \in rejects : w = Record(id))
             ELSE Ok(HeaderFields(w))

\* BlockHash::consensus_decode: a direct copy of the first 32 bytes.
DecodeBlockHash(bytes) ==
    IF Len(bytes) < BLOCK_HASH_SIZE THEN FromEncode("Io", 0)
    ELSE Ok(SubSeq(bytes, 1, BLOCK_HASH_SIZE))

\* ------------------------------------------------------ serde (JSON)
\* A JSON payload is [wellformed, obj]: obj maps the JSON keys to values.
\* A decimal number is [mant, exp], the number mant * 10^exp.
Has(o, keys) == keys \subseteq DOMAIN o

DeserializeScriptPubKey(o) ==
    [asm       |-> o.asm,
     hex       |-> o.hex,
     req_sigs  |-> IF "reqSigs" \in DOMAIN o THEN o.reqSigs ELSE 0,
     type_     |-> o.type,
     addresses |-> IF "addresses" \in DOMAIN o THEN o.addresses ELSE <<>>]

\* `pub value: f64`: serde reads the JSON number into an f64, the double
\* nearest to the decimal; the number is kept in the unit the node sent
\* (no scaling).  The double is modelled by the decimal it approximates.
UtxoValue(v) == [mant |-> v.mant, exp |-> v.exp]

DeserializeUtxo(o) ==
    [height         |-> o.height,
     value          |-> UtxoValue(o.value),
     script_pub_key |-> DeserializeScriptPubKey(o.scriptPubKey)]

UtxoOk(o) ==
    /\ Has(o, {"height", "value", "scriptPubKey"})
    /\ Has(o.scriptPubKey, {"asm", "hex", "type"})

UtxoDataFields(o) ==
    [chain_height  |-> o.chainHeight,
     chaintip_hash |-> o.chaintipHash,
     bitmap        |-> o.bitmap,
     utxos         |-> [i \in 1..Len(o.utxos) |-> DeserializeUtxo(o.utxos[i])]]

DeserializeUtxoData(doc) ==
    IF ~doc.wellformed THEN FromReqwest("decode")
    ELSE IF ~Has(doc.obj, {"chainHeight", "chaintipHash", "bitmap", "utxos"})
    THEN FromReqwest("decode")
    ELSE IF \E i \in 1..Len(doc.obj.utxos) : ~UtxoOk(doc.obj.utxos[i])
    THEN FromReqwest("decode")
    ELSE Ok(UtxoDataFields(doc.obj))

ChainInfoRequired ==
    {"chain", "blocks", "headers", "bestblockhash", "difficulty", "mediantime",
     "verificationprogress", "chainwork", "pruned", "warnings"}

DeserializeChainInfo(doc) ==
    IF ~doc.wellformed THEN FromReqwest("decode")
    ELSE IF ~Has(doc.obj, ChainInfoRequired) THEN FromReqwest("decode")
    ELSE LET o == doc.obj
         IN  Ok([chain |-> o.chain, blocks |-> o.blocks, headers |-> o.headers,
                 bestblockhash |-> o.bestblockhash, difficulty |-> o.difficulty,
                 mediantime |-> o.mediantime,
                 verificationprogress |-> o.verificationprogress,
                 chainwork |-> o.chainwork, pruned |-> o.pruned,
                 pruneheight |-> IF "pruneheight" \in DOMAIN o THEN o.pruneheight
                                 ELSE 0,
                 warnings |-> o.warnings])

\* ------------------------------------------------------------ the node
\* What the node may answer.  The status line travels with every response;
\* an error status carries an error-message body.
HexText(n) == [i \in 1..n |-> IF i % 2 = 1 THEN "0" ELSE "f"]
Terminators == {<<>>, <<"\n">>, <<"\n", "\n">>}
TextBodies == {HexText(n) \o t : n \in 0..MaxHex, t \in Terminators}

ErrLens == {BLOCK_HASH_SIZE - 5, BLOCK_HASH_SIZE, BLOCK_HASH_SIZE + 8}
TailLens == {0, 1}
HashLens == {0, BLOCK_HASH_SIZE - 1, BLOCK_HASH_SIZE, BLOCK_HASH_SIZE + 1}

Response(status, body, size) == [status |-> status, body |-> body, size |-> size]
Bin(status, bytes) == Response(status, bytes, Len(bytes))
ErrorResponses == {Bin(404, Filler(n)) : n \in ErrLens}
NotFound == Bin(404, Filler(BLOCK_HASH_SIZE - 5))

MoneyValues == <<[mant |-> 1, exp |-> -8], [mant |-> 1, exp |-> 0],
                 [mant |-> 21, exp |-> 6]>>
ScriptDoc == [asm |-> "OP_CHECKSIG", hex |-> "ac", type |-> "pubkey"]
UtxoDoc(i) == [height |-> i, value |-> MoneyValues[((i - 1) % 3) + 1],
               scriptPubKey |-> ScriptDoc]
UtxoDataDoc(n) ==
    [chainHeight |-> 1, chaintipHash |-> GenesisHash,
     bitmap |-> [i \in 1..n |-> "1"],
     utxos |-> [i \in 1..n |-> UtxoDoc(i)]]
ChainInfoDoc ==
    [chain |-> "main", blocks |-> 1, headers |-> 1, bestblockhash |-> GenesisHash,
     difficulty |-> 1, mediantime |-> 0, verificationprogress |-> 1,
     chainwork |-> "0100", pruned |-> FALSE, warnings |-> ""]
PrunedChainInfoDoc ==
    [chain |-> "main", blocks |-> 1, headers |-> 1, bestblockhash |-> GenesisHash,
     difficulty |-> 1, mediantime |-> 0, verificationprogress |-> 1,
     chainwork |-> "0100", pruned |-> TRUE, pruneheight |-> 1, warnings |-> ""]
Json(wellformed, obj) == Response(200, [wellformed |-> wellformed, obj |-> obj], 1)
Garbage == Json(FALSE, [chain |-> "main"])

\* ------------------------------------------------------------- actions
Init ==
    /\ endpoint = DEFAULT_ENDPOINT
    /\ rejects \in {{}, {2}}
    /\ pc = [c \in Calls |-> "idle"]
    /\ op = [c \in Calls |-> "none"]
    /\ args = [c \in Calls |-> [none |-> TRUE]]
    /\ url = [c \in Calls |-> <<>>]
    /\ net = [c \in Calls |-> Response(0, <<>>, 0)]
    /\ recvd = [c \in Calls |-> 0]
    /\ result = [c \in Calls |-> <<>>]
    /\ offset = [c \in Calls |-> 0]
    /\ ret = [c \in Calls |-> <<>>]
    /\ out = [c \in Calls |-> NoOut]
    /\ nreq = [c \in Calls |-> 0]
    /\ ndec = [c \in Calls |-> 0]
    /\ conn = [c \in Calls |-> "none"]

\* self.client.get(url).send(): the one GET of a call.
Get(c, o, a, path, suffix) ==
    /\ pc[c] = "idle"
    /\ op' = [op EXCEPT ![c] = o]
    /\ args' = [args EXCEPT ![c] = a]
    /\ url' = [url EXCEPT ![c] = endpoint \o path \o <<suffix>>]
    /\ nreq' = [nreq EXCEPT ![c] = @ + 1]
    /\ pc' = [pc EXCEPT ![c] = "send"]
    /\ UNCHANGED <<endpoint, rejects, net, recvd, result, offset, ret, out, ndec,
                   conn>>

call_json(c, o, a, path) == Get(c, o, a, path, ".json")
call_bin(c, o, a, path) == Get(c, o, a, path, ".bin")

call_hex(c) ==
    Get(c, "call_hex", [path |-> <<"blockhashbyheight/0">>],
        <<"blockhashbyheight/0">>, ".hex")

headers(c) ==
    \E count \in 0..MaxCount :
        call_bin(c, "headers", [count |-> count, blockhash |-> GenesisHash],
                 <<"headers/", ToString(count), "/", GenesisHash>>)

block_notxdetails(c) ==
    call_bin(c, "block_notxdetails", [blockhash |-> GenesisHash],
             <<"block/notxdetails/", GenesisHash>>)

blockhashbyheight(c) ==
    \E h \in Heights :
        call_bin(c, "blockhashbyheight", [height |-> h],
                 <<"blockhashbyheight/", ToString(h)>>)

chaininfo(c) == call_json(c, "chaininfo", [none |-> TRUE], <<"chaininfo">>)

\* The path getutxos builds: one `<txid>-<i>` per txid, appended in turn.
RECURSIVE UtxoSegments(_, _)
UtxoSegments(ids, i) ==
    IF i >= Len(ids) THEN <<>>
    ELSE <<ids[i + 1], "-", ToString(i)>> \o UtxoSegments(ids, i + 1)

GetutxosPath(checkmempool, txids) ==
    <<"getutxos/">> \o (IF checkmempool THEN <<"checkmempool/">> ELSE <<>>)
                    \o UtxoSegments(txids, 0)

\* The txid lists tried: up to MaxTxids txids, the two taken in turn,
\* starting from either.
TxidLists ==
    {[i \in 1..n |-> Txids[((i + k) % 2) + 1]] : n \in 0..MaxTxids, k \in {0, 1}}

getutxos(c) ==
    \E checkmempool \in BOOLEAN, txids \in TxidLists :
        call_json(c, "getutxos", [checkmempool |-> checkmempool, txids |-> txids],
                  GetutxosPath(checkmempool, txids))

NodeResponses(o, a) ==
    CASE o = "headers" ->
            {Bin(200, Body(recs, t)) : recs \in SeqsUpTo(RecordIds, a.count),
                                       t \in TailLens} \cup {NotFound}
      [] o = "block_notxdetails" ->
            {Bin(200, Body(<<r>>, t)) : r \in RecordIds, t \in {0, 1}}
            \cup {Bin(200, Filler(BLOCK_HEADER_SIZE - 1)), NotFound}
      [] o = "blockhashbyheight" ->
            {Bin(200, Filler(n)) : n \in HashLens} \cup ErrorResponses
      [] o = "call_hex" ->
            {Response(200, t, Len(t)) : t \in TextBodies}
      [] o = "chaininfo" ->
            {Json(TRUE, ChainInfoDoc),
             Json(TRUE, PrunedChainInfoDoc),
             Json(TRUE, [blocks |-> 1]),
             Garbage}
      [] o = "getutxos" ->
            {Json(TRUE, UtxoDataDoc(Len(a.txids))), Garbage}

\* ------------------------------------------------------- the transport
\* `.send().await?` fails: the `?` returns the reqwest error.
SendFail(c) ==
    /\ pc[c] = "send"
    /\ conn' = [conn EXCEPT ![c] = "failed"]
    /\ out' = [out EXCEPT ![c] =
                  IF op[c] = "call_hex" THEN Err("reqwest::Error", "request", 0)
                  ELSE FromReqwest("request")]
    /\ pc' = [pc EXCEPT ![c] = "done"]
    /\ UNCHANGED <<endpoint, rejects, op, args, url, net, recvd, result, offset,
                   ret, nreq, ndec>>

\* `.send().await` succeeds: the response head is in, whatever its status.
Respond(c) ==
    /\ pc[c] = "send"
    /\ \E r \in NodeResponses(op[c], args[c]) : net' = [net EXCEPT ![c] = r]
    /\ conn' = [conn EXCEPT ![c] = "open"]
    /\ pc' = [pc EXCEPT ![c] = "body"]
    /\ UNCHANGED <<endpoint, rejects, op, args, url, recvd, result, offset, ret,
                   out, nreq, ndec>>

NextChunk(r, size) == IF r = 0 /\ size >= 2 THEN size \div 2 ELSE size
\* Faulty variant: the await returns as soon as a first chunk is in.
BodyCompleteEarly(c) == recvd[c] > 0 \/ net[c].size = 0
BodyComplete(c) == recvd[c] = net[c].size

\* Faulty variant: one receive buffer kept in the shared Context, holding the body
\* of the latest open connection.
PayloadShared(c) ==
    net[CHOOSE d \in Calls : conn[d] = "open" /\ \A e \in Calls : conn[e] = "open" => e <= d].body
Payload(c) == net[c].body

\* `.bytes()` / `.text()` / `.json()` collecting the body, chunk by chunk.
RecvChunk(c) ==
    /\ pc[c] = "body"
    /\ recvd[c] < net[c].size
    /\ recvd' = [recvd EXCEPT ![c] = NextChunk(@, net[c].size)]
    /\ UNCHANGED <<endpoint, rejects, pc, op, args, url, net, result, offset, ret,
                   out, nreq, ndec, conn>>

\* The connection breaks before the body is complete.
BodyFail(c) ==
    /\ pc[c] = "body"
    /\ recvd[c] < net[c].size
    /\ conn' = [conn EXCEPT ![c] = "failed"]
    /\ out' = [out EXCEPT ![c] =
                  IF op[c] = "call_hex" THEN Err("reqwest::Error", "body", 0)
                  ELSE FromReqwest("body")]
    /\ pc' = [pc EXCEPT ![c] = "done"]
    /\ UNCHANGED <<endpoint, rejects, op, args, url, net, recvd, result, offset,
                   ret, nreq, ndec>>

\* The body is complete: the await returns it.
BodyDone(c) ==
    /\ pc[c] = "body"
    /\ BodyComplete(c)
    /\ result' = [result EXCEPT ![c] = Payload(c)]
    /\ conn' = [conn EXCEPT ![c] = "closed"]
    /\ pc' = [pc EXCEPT ![c] = "decode"]
    /\ UNCHANGED <<endpoint, rejects, op, args, url, net, recvd, offset, ret, out,
                   nreq, ndec>>

\* ------------------------------------------------------------ decoding
Finish(c, v) ==
    /\ out' = [out EXCEPT ![c] = v]
    /\ pc' = [pc EXCEPT ![c] = "done"]

\* call_hex: result.pop(); Ok(result)
Pop(text) == IF text = <<>> THEN <<>> ELSE SubSeq(text, 1, Len(text) - 1)

HexReturn(c) ==
    /\ pc[c] = "decode"
    /\ op[c] = "call_hex"
    /\ result' = [result EXCEPT ![c] = Pop(@)]
    /\ Finish(c, Ok(Pop(result[c])))
    /\ UNCHANGED <<endpoint, rejects, op, args, url, net, recvd, offset, ret, nreq,
                   ndec, conn>>

\* Ok(T::consensus_decode(result.as_ref())?) and call_json's `.json::<T>()`
Decode(o, payload) ==
    CASE o = "block_notxdetails" -> DecodeBlockHeader(payload)
      [] o = "blockhashbyheight" -> DecodeBlockHash(payload)
      [] o = "chaininfo" -> DeserializeChainInfo(payload)
      [] o = "getutxos" -> DeserializeUtxoData(payload)

DecodeReturn(c) ==
    /\ pc[c] = "decode"
    /\ op[c] \in {"block_notxdetails", "blockhashbyheight", "chaininfo", "getutxos"}
    /\ ndec' = [ndec EXCEPT ![c] = @ + 1]
    /\ Finish(c, Decode(op[c], result[c]))
    /\ UNCHANGED <<endpoint, rejects, op, args, url, net, recvd, result, offset,
                   ret, nreq, conn>>

\* headers: result[offset..(offset+BLOCK_HEADER_SIZE)]
InRange(bytes, off) == off + BLOCK_HEADER_SIZE <= Len(bytes)
\* Faulty variant: the slice ignores the offset.
WindowFirst(bytes, off) == SubSeq(bytes, 1, BLOCK_HEADER_SIZE)
Window(bytes, off) == SubSeq(bytes, off + 1, off + BLOCK_HEADER_SIZE)

\* Faulty variant: a record that fails to decode is skipped and the loop goes on.
HeadersStepSkip(c) ==
    /\ pc[c] = "decode"
    /\ op[c] = "headers"
    /\ offset[c] < Len(result[c])
    /\ IF ~InRange(result[c], offset[c])
       THEN /\ pc' = [pc EXCEPT ![c] = "panicked"]
            /\ UNCHANGED <<out, ret, offset, ndec>>
       ELSE LET d == DecodeBlockHeader(Window(result[c], offset[c]))
            IN  /\ ndec' = [ndec EXCEPT ![c] = @ + 1]
                /\ ret' = [ret EXCEPT ![c] = IF d.tag = "Err" THEN @ ELSE Append(@, d.val)]
                /\ offset' = [offset EXCEPT ![c] = @ + BLOCK_HEADER_SIZE]
                /\ UNCHANGED <<out, pc>>
    /\ UNCHANGED <<endpoint, rejects, op, args, url, net, recvd, result, nreq, conn>>

\* One turn of headers' while loop.  Slicing past the end of the payload
\* panics; a decode error leaves through `?`.
HeadersStep(c) ==
    /\ pc[c] = "decode"
    /\ op[c] = "headers"
    /\ offset[c] < Len(result[c])
    /\ IF ~InRange(result[c], offset[c])
       THEN /\ pc' = [pc EXCEPT ![c] = "panicked"]
            /\ UNCHANGED <<out, ret, offset, ndec>>
       ELSE LET d == DecodeBlockHeader(Window(result[c], offset[c]))
            IN  /\ ndec' = [ndec EXCEPT ![c] = @ + 1]
                /\ IF d.tag = "Err"
                   THEN /\ Finish(c, d)
                        /\ UNCHANGED <<ret, offset>>
                   ELSE /\ ret' = [ret EXCEPT ![c] = Append(@, d.val)]
                        /\ offset' = [offset EXCEPT ![c] = @ + BLOCK_HEADER_SIZE]
                        /\ UNCHANGED <<out, pc>>
    /\ UNCHANGED <<endpoint, rejects, op, args, url, net, recvd, result, nreq, conn>>

\* The loop test fails: Ok(ret)
HeadersReturn(c) ==
    /\ pc[c] = "decode"
    /\ op[c] = "headers"
    /\ ~(offset[c] < Len(result[c]))
    /\ Finish(c, Ok(ret[c]))
    /\ UNCHANGED <<endpoint, rejects, op, args, url, net, recvd, result, offset,
                   ret, nreq, ndec, conn>>

Next ==
    \E c \in Calls :
        \/ call_hex(c)
        \/ block_notxdetails(c)
        \/ headers(c)
        \/ blockhashbyheight(c)
        \/ chaininfo(c)
        \/ getutxos(c)
        \/ SendFail(c)
        \/ Respond(c)
        \/ RecvChunk(c)
        \/ BodyFail(c)
        \/ BodyDone(c)
        \/ HexReturn(c)
        \/ DecodeReturn(c)
        \/ HeadersStep(c)
        \/ HeadersReturn(c)

Spec == Init /\ [][Next]_vars

\* ============================================================== claims
Finished(c) == pc[c] \in {"done", "panicked"}
Decoded(c) == Finished(c) /\ conn[c] = "closed"
Last(t) == t[Len(t)]
NthWindow(bytes, i) ==
    SubSeq(bytes, BLOCK_HEADER_SIZE * i + 1, BLOCK_HEADER_SIZE * i + BLOCK_HEADER_SIZE)
\* The whole records of a payload the codec refuses, by index from 0.
BadRecords(bytes) ==
    {i \in 0..((Len(bytes) \div BLOCK_HEADER_SIZE) - 1) :
        DecodeBlockHeader(NthWindow(bytes, i)).tag = "Err"}
FirstBad(bytes) ==
    CHOOSE i \in BadRecords(bytes) : \A j \in BadRecords(bytes) : i <= j

\* C1: headers returns exactly `count` headers when the payload has
\* 80*count bytes, and a TruncatedStream error for every other length; it
\* never panics and never returns another number of headers.
ClaimC1 ==
    \A c \in Calls :
        (op[c] = "headers" /\ Decoded(c)) =>
            /\ pc[c] # "panicked"
            /\ IF Len(net[c].body) = BLOCK_HEADER_SIZE * args[c].count
               THEN BadRecords(net[c].body) = {} =>
                        (out[c].tag = "Ok" /\ Len(out[c].val) = args[c].count)
               ELSE out[c].tag = "Err" /\ out[c].kind = "TruncatedStream"

\* C2: when a record of the header stream fails to decode, the call returns
\* the decode error of the first failing record: no header sequence is
\* returned, and no record after the failing one is decoded.
TheoremC2 ==
    \A c \in Calls :
        (op[c] = "headers" /\ pc[c] \in {"decode", "done", "panicked"}
                           /\ BadRecords(result[c]) # {}) =>
            LET f == FirstBad(result[c])
            IN  /\ pc[c] # "panicked"
                /\ out[c].tag # "Ok"
                /\ ndec[c] <= f + 1
                /\ Len(ret[c]) <= f
                /\ pc[c] = "done" =>
                       out[c] = DecodeBlockHeader(NthWindow(result[c], f))

\* A call ended with the error of its second record, the first one decoded
\* and dropped.
WitnessC2 ==
    \E c \in Calls :
        /\ op[c] = "headers" /\ pc[c] = "done"
        /\ out[c].tag = "Err" /\ out[c].kind = "ParseFailed"
        /\ Len(ret[c]) = 1
        /\ FirstBad(result[c]) = 1

\* C3: when headers succeeds on a payload of n*80 bytes, the i-th header
\* returned is the decode of bytes [80*i, 80*i+80) of the payload, for every
\* i in 0..n-1, in payload order.
TheoremC3 ==
    \A c \in Calls :
        (op[c] = "headers" /\ pc[c] = "done" /\ out[c].tag = "Ok") =>
            /\ Len(net[c].body) = BLOCK_HEADER_SIZE * Len(out[c].val)
            /\ \A i \in 0..(Len(out[c].val) - 1) :
                   out[c].val[i + 1] = HeaderFields(NthWindow(net[c].body, i))

WitnessC3 ==
    \E c \in Calls :
        /\ op[c] = "headers" /\ pc[c] = "done" /\ out[c].tag = "Ok"
        /\ Len(out[c].val) >= 2
        /\ out[c].val[1] # out[c].val[2]

\* C4: call_hex drops exactly one trailing line terminator and nothing
\* else: a payload that does not end in a line terminator loses no character.
ClaimC4 ==
    \A c \in Calls :
        (op[c] = "call_hex" /\ Decoded(c) /\ out[c].tag = "Ok") =>
            LET t == net[c].body
            IN  IF t # <<>> /\ Last(t) = "\n"
                THEN out[c].val = SubSeq(t, 1, Len(t) - 1)
                ELSE out[c].val = t

\* C5: the single-object binary decoders consume the full payload: the
\* header decode succeeds only on exactly 80 bytes and the block-hash decode
\* only on exactly 32 bytes; a shorter or longer payload is a
\* BitcoinEncodeError.
ExactSize(o) == IF o = "block_notxdetails" THEN BLOCK_HEADER_SIZE ELSE BLOCK_HASH_SIZE
ClaimC5 ==
    \A c \in Calls :
        (op[c] \in {"block_notxdetails", "blockhashbyheight"} /\ Decoded(c)
            /\ net[c].status = 200 /\ Len(net[c].body) # ExactSize(op[c])) =>
            (out[c].tag = "Err" /\ out[c].variant = "BitcoinEncodeError")

\* C6: a call issues at most one request; it decodes only after the whole
\* payload is in; a transport failure ends the call with Error::Reqwest and
\* no decode attempt; a decode failure ends it with a decode error, told
\* apart from a transport error, and with no object and no second request.
TransportErrors ==
    {Err(v, k, 0) : v \in {"Reqwest", "reqwest::Error"}, k \in {"request", "body"}}
ClaimC7 ==
    \A c \in Calls :
        (op[c] = "blockhashbyheight" /\ Decoded(c) /\ net[c].status # 200) =>
            out[c].tag = "Err"

\* C8: concurrent calls on one Context are independent: the endpoint is
\* never modified, and under every interleaving each call's payload, partial
\* result and outcome are those of the call run alone on its own payload.
RECURSIVE SoloHeaders(_, _, _)
SoloHeaders(bytes, i, acc) ==
    IF BLOCK_HEADER_SIZE * i >= Len(bytes) THEN [pc |-> "done", out |-> Ok(acc)]
    ELSE IF BLOCK_HEADER_SIZE * (i + 1) > Len(bytes)
    THEN [pc |-> "panicked", out |-> NoOut]
    ELSE LET d == DecodeBlockHeader(NthWindow(bytes, i))
         IN  IF d.tag = "Err" THEN [pc |-> "done", out |-> d]
             ELSE SoloHeaders(bytes, i + 1, Append(acc, d.val))

Solo(o, body) ==
    CASE o = "headers" -> SoloHeaders(body, 0, <<>>)
      [] o = "call_hex" -> [pc |-> "done", out |-> Ok(Pop(body))]
      [] OTHER -> [pc |-> "done", out |-> Decode(o, body)]

TheoremC8 ==
    /\ endpoint = DEFAULT_ENDPOINT
    /\ \A c \in Calls :
        /\ Decoded(c) => [pc |-> pc[c], out |-> out[c]] = Solo(op[c], net[c].body)
        /\ pc[c] = "decode" => result[c] = net[c].body
        /\ (op[c] = "headers" /\ conn[c] = "closed") =>
               /\ offset[c] = BLOCK_HEADER_SIZE * Len(ret[c])
               /\ \A i \in 1..Len(ret[c]) :
                      ret[c][i] = HeaderFields(NthWindow(net[c].body, i - 1))

\* One headers call is in the middle of its loop while the other has
\* returned its two headers.
WitnessC8 ==
    \E c, d \in Calls :
        /\ c # d
        /\ op[c] = "headers" /\ pc[c] = "decode" /\ Len(ret[c]) = 1
        /\ Len(result[c]) > BLOCK_HEADER_SIZE
        /\ op[d] = "headers" /\ pc[d] = "done" /\ out[d].tag = "Ok"
        /\ Len(out[d].val) = 2
        /\ net[c].body # net[d].body

\* C9: a Utxo value received as a decimal fraction of the base unit is
\* delivered as the integer number of satoshis, the value times 1e8:
\* 0.00000001 as 1, 1.0 as 100000000, 21000000.0 as 2100000000000000.
Satoshis(v) == [mant |-> v.mant, exp |-> v.exp + 8]
ClaimC9 ==
    \A c \in Calls :
        (op[c] = "getutxos" /\ Decoded(c) /\ out[c].tag = "Ok") =>
            \A i \in 1..Len(out[c].val.utxos) :
                out[c].val.utxos[i].value = Satoshis(net[c].body.obj.utxos[i].value)

\* C10: getutxos requests the path 'getutxos/', then 'checkmempool/' iff the
\* flag is set, then one <txid>-<index> segment per txid in input order,
\* each separated from the next by '/'.
RECURSIVE SeparatedSegments(_, _)
SeparatedSegments(txids, i) ==
    IF i >= Len(txids) THEN <<>>
    ELSE (IF i > 0 THEN <<"/">> ELSE <<>>)
         \o <<txids[i + 1], "-", ToString(i)>> \o SeparatedSegments(txids, i + 1)
ClaimC10 ==
    \A c \in Calls :
        op[c] = "getutxos" =>
            /\ nreq[c] = 1
            /\ url[c] = endpoint \o <<"getutxos/">>
                        \o (IF args[c].checkmempool THEN <<"checkmempool/">> ELSE <<>>)
                        \o SeparatedSegments(args[c].txids, 0) \o <<".json">>

====
